---- MODULE Spec2Model ----
(***************************************************************************)
(* Authentication workflow of the contacts backend: the token codec, the   *)
(* Redis session cache, the identity resolver (get_current_user) and the   *)
(* handlers of src/api/auth.py, over the durable user table.               *)
(*                                                                         *)
(* Every handler is one action: the request runs from its dependencies to  *)
(* its response without another request in between.  Time is the wall      *)
(* clock in seconds; a JWT carries its expiry as a whole second, so two    *)
(* tokens with the same claims issued in the same second are the same      *)
(* string.                                                                 *)
(***************************************************************************)
EXTENDS Integers, Sequences, FiniteSets, TLC

VARIABLES users, cache, limiter, issued, now, served, last, flights,
          contacts, contact_serial, today

vars == <<users, cache, limiter, issued, now, served, last, flights,
          contacts, contact_serial, today>>

(***************************************************************************)
(* Bounds of the model.                                                    *)
(***************************************************************************)
MaxUsers == 2
MaxTime == 121
MaxRequests == 5
MaxFlights == 3
MaxContacts == 2
MaxDaygap == 1
MaxContactRequests == 4
MaxOverride == 2

Usernames == {"alice", "bob"}
Emails == {"a@x", "b@x"}
Passwords == {"pw1", "pw2"}

\* The registration forms clients send: a repeat of a form, a taken email
\* under a free username and a taken username under a free email all occur.
RegistrationForms ==
    { [username |-> "alice", email |-> "a@x", password |-> "pw1"],
      [username |-> "bob", email |-> "b@x", password |-> "pw2"],
      [username |-> "alice", email |-> "b@x", password |-> "pw1"] }

(***************************************************************************)
(* Program constants.                                                      *)
(***************************************************************************)
JWT_EXPIRATION_SECONDS == 120
JWT_REFRESH_EXPIRATION_SECONDS == 600
SNAPSHOT_TTL_SECONDS == 3600
EMAIL_TOKEN_DAYS == 7
SECONDS_PER_DAY == 86400
ME_RATE_LIMIT == 5
RATE_WINDOW_SECONDS == 60
BIRTHDAYS_TTL_SECONDS == 3600
DEFAULT_LIMIT == 100

USER_EMAIL_ALREADY_EXISTS == "User with this email already exists"
USER_USERNAME_ALREADY_EXISTS == "User with this username already exists"
USER_EMAIL_NOT_CONFIRMED == "Email is not confirmed"
USER_EMAIL_ALREADY_CONFIRMED == "Email already confirmed"
USER_EMAIL_CONFIRMED == "Email confirmed"
USER_EMAIL_CHECK_EMAIL == "Check your email for the confirmation link"
USER_WRONG_CREDENTIALS == "Wrong credentials"
USER_PASSWORD_RESET == "Password reset"
USER_LOGOUT == "Logged out successfully"
USER_NOT_FOUND == "User not found"
CONTACT_NOT_FOUND == "Contact not found"
ERROR_WRONG_TOKEN == "Wrong token"
ERROR_UNSUFFICIENT_PERMISSIONS == "Insufficient permissions"
ERROR_USER_NOT_FOUND == "User not found"
ERROR_TOKEN_REVOKED == "Token revoked"
CREDENTIALS_INVALID == "Could not validate credentials"
VERIFICATION_ERROR == "Verification error"
INTERNAL_SERVER_ERROR == "Internal Server Error"
LIMIT_EXCEEDED == "Limit exceeded, too many requests"

(***************************************************************************)
(* Credential store: passlib's bcrypt context.  A hash is a value that     *)
(* verifies exactly the password it was made from.                         *)
(***************************************************************************)
get_password_hash(password) == "bcrypt$" \o password

verify_password(plain_password, hashed_password) ==
    hashed_password = get_password_hash(plain_password)

(***************************************************************************)
(* Token codec (python-jose).  A token is its claim set and its form: a    *)
(* token signed with JWT_SECRET, the same claims under another signature,  *)
(* or a string that is no JWT at all.                                      *)
(***************************************************************************)
Signed(payload) == [form |-> "signed", payload |-> payload]

Forged(token) == [token EXCEPT !.form = "forged"]

Malformed == [form |-> "malformed", payload |-> [garbage |-> TRUE]]

\* jwt.decode: JWTError on a bad structure, a bad signature or exp < now.
jwt_decode(token) ==
    IF token.form # "signed"
    THEN [ok |-> FALSE, payload |-> token.payload]
    ELSE IF "exp" \in DOMAIN token.payload /\ token.payload.exp < now
         THEN [ok |-> FALSE, payload |-> token.payload]
         ELSE [ok |-> TRUE, payload |-> token.payload]

\* expires_delta is <<>> for None and <<t>> for a number t.
Truthy(expires_delta) == expires_delta # <<>> /\ expires_delta[1] # 0

create_access_token(data, expires_delta) ==
    LET expire == IF Truthy(expires_delta)
                  THEN now + expires_delta[1]
                  ELSE now + JWT_EXPIRATION_SECONDS
    IN  Signed(data @@ [exp |-> expire])

\* Without an override the configured number of seconds is passed as days;
\* with one, datetime + int raises TypeError.
create_refresh_token(data, expires_delta) ==
    IF Truthy(expires_delta)
    THEN [raised |-> TRUE, token |-> Malformed]
    ELSE [raised |-> FALSE,
          token |-> Signed(data @@
              [exp |-> now + JWT_REFRESH_EXPIRATION_SECONDS * SECONDS_PER_DAY])]

create_email_token(data) ==
    Signed(data @@ [iat |-> now, exp |-> now + EMAIL_TOKEN_DAYS * SECONDS_PER_DAY])

(***************************************************************************)
(* Session cache (Redis, decode_responses=True): a key is present from its *)
(* SET until its DEL or until its time to live has run out.                *)
(***************************************************************************)
UserKey(user_id) == <<"user", user_id>>

RefreshKey(user_id) == <<"refresh_token", user_id>>

Present(c, key) == key \in DOMAIN c /\ now < c[key].expires

redis_get(c, key) == IF Present(c, key) THEN <<c[key].val>> ELSE <<>>

redis_set(c, key, value, ex) ==
    [k \in DOMAIN c \cup {key} |->
        IF k = key THEN [val |-> value, expires |-> now + ex, ex |-> ex] ELSE c[k]]

redis_delete(c, key) == [k \in DOMAIN c \ {key} |-> c[k]]

\* Redis drops a key whose time to live has run out.
Expire(c, t) == [k \in {x \in DOMAIN c : t < c[x].expires} |-> c[k]]

(***************************************************************************)
(* Durable user table: rows in insertion order, the id is the row number.  *)
(***************************************************************************)
Rows == {users[i] : i \in 1..Len(users)}

get_user_by_id(user_id) == {u \in Rows : u.id = user_id}

get_user_by_username(username) == {u \in Rows : u.username = username}

get_user_by_email(email) == {u \in Rows : u.email = email}

\* scalar_one_or_none of a lookup that found a row.
One(found) == CHOOSE u \in found : TRUE

\* libgravatar: the image URL is a function of the email.
Gravatar(email) == "gravatar/" \o email

\* UserRole and the role column of the users table (sources not in the
\* snapshot): a row is a plain user unless the role was set to admin.
ROLE_USER == "user"
ROLE_ADMIN == "admin"

\* UserRepository.create_user: a new row, not yet confirmed.
\* A registration that trusts the address it was given.
create_user_confirmed(body, avatar) ==
    Append(users, [id |-> Len(users) + 1,
                   username |-> body.username,
                   email |-> body.email,
                   hashed_password |-> body.password,
                   confirmed |-> TRUE,
                   avatar |-> avatar,
                   role |-> ROLE_USER])

create_user(body, avatar) ==
    Append(users, [id |-> Len(users) + 1,
                   username |-> body.username,
                   email |-> body.email,
                   hashed_password |-> body.password,
                   confirmed |-> FALSE,
                   avatar |-> avatar,
                   role |-> ROLE_USER])

\* UserModel.from_orm(user).json(): the projection kept in the cache.
\* A projection that forgets whose it is.
UserModel_without_username(user) ==
    [id |-> user.id, username |-> "", email |-> user.email, avatar |-> user.avatar]

UserModel(user) ==
    [id |-> user.id, username |-> user.username,
     email |-> user.email, avatar |-> user.avatar]

\* UserRepository.confirmed_email
\* A confirmation that commits no change.
repository_confirmed_email_nothing(us, email) == us

repository_confirmed_email(us, email) ==
    [i \in 1..Len(us) |->
        IF us[i].email = email THEN [us[i] EXCEPT !.confirmed = TRUE] ELSE us[i]]

\* UserRepository.reset_password, whose source is not in the repository
\* snapshot: it sets the stored hash of the user with that id.
reset_password(us, user_id, hashed_password) ==
    [i \in 1..Len(us) |->
        IF us[i].id = user_id
        THEN [us[i] EXCEPT !.hashed_password = hashed_password]
        ELSE us[i]]

\* send_registration_email (source not in the snapshot): the confirmation
\* link carries an email token.
registration_email(email) == create_email_token([sub |-> email])

\* User.from_dict (source not in the snapshot): the user object rebuilt
\* from the cached projection.
from_dict(user_data) ==
    [id |-> user_data.id, username |-> user_data.username,
     email |-> user_data.email, avatar |-> user_data.avatar]

(***************************************************************************)
(* Identity resolver.  The result names the terminal state, the response   *)
(* of a rejection, the resolved user, the path taken and the cache it      *)
(* leaves behind.                                                          *)
(***************************************************************************)
Rejection(status, detail, c) ==
    [outcome |-> "Rejected", status |-> status, detail |-> detail,
     path |-> "none", user |-> [id |-> 0], cache |-> c]

\* A resolver that never finds a snapshot.
cached_user_never(c, user_id) == <<>>

\* redis_client.get(f"user:{user_id}")
cached_user(c, user_id) == redis_get(c, UserKey(user_id))

\* A resolver that does not keep what it read from the table.
cache_snapshot_nowhere(c, user) == c

\* redis_client.set(f"user:{user.id}", user_out.json(), ex=3600)
cache_snapshot(c, user) ==
    redis_set(c, UserKey(user.id), UserModel(user), SNAPSHOT_TTL_SECONDS)

get_current_user(token) ==
    LET d == jwt_decode(token) IN
    IF ~d.ok
    THEN Rejection(401, CREDENTIALS_INVALID, cache)
    ELSE IF "sub" \notin DOMAIN d.payload \/ "id" \notin DOMAIN d.payload
    THEN Rejection(500, INTERNAL_SERVER_ERROR, cache)
    ELSE
    LET username == d.payload.sub
        user_id == d.payload.id
        hit == cached_user(cache, user_id)
        found == get_user_by_username(username)
    IN  IF hit # <<>>
        THEN [outcome |-> "Authenticated", status |-> 200, detail |-> "",
              path |-> "cache", user |-> from_dict(hit[1]), cache |-> cache]
        ELSE IF found = {}
        THEN Rejection(401, CREDENTIALS_INVALID, cache)
        ELSE [outcome |-> "Authenticated", status |-> 200, detail |-> "",
              path |-> "store", user |-> One(found),
              cache |-> cache_snapshot(cache, One(found))]

(***************************************************************************)
(* Handlers of src/api/auth.py.  A result is the response (status, detail, *)
(* body), the table and the cache the request leaves, and the tokens it    *)
(* hands out in the response or by email.                                  *)
(***************************************************************************)
Authenticated(bearer) == get_current_user(bearer).outcome = "Authenticated"

NoBody == [none |-> TRUE]

Result(status, detail, body, us, c, mail) ==
    [status |-> status, detail |-> detail, body |-> body,
     users |-> us, cache |-> c, mail |-> mail]

Failure(status, detail, c) == Result(status, detail, NoBody, users, c, {})

\* A registration that looks the username up before the email.
register_conflict_username_first(user_data) ==
    IF get_user_by_username(user_data.username) # {}
    THEN USER_USERNAME_ALREADY_EXISTS
    ELSE IF get_user_by_email(user_data.email) # {}
    THEN USER_EMAIL_ALREADY_EXISTS
    ELSE ""

\* The two existence checks of register_user: the detail of the conflict, or
\* "" when the email and the username are both free.
register_conflict(user_data) ==
    IF get_user_by_email(user_data.email) # {}
    THEN USER_EMAIL_ALREADY_EXISTS
    ELSE IF get_user_by_username(user_data.username) # {}
    THEN USER_USERNAME_ALREADY_EXISTS
    ELSE ""

register_user(user_data) ==
    IF register_conflict(user_data) # ""
    THEN Failure(409, register_conflict(user_data), cache)
    ELSE
    LET hashed == [user_data EXCEPT !.password = get_password_hash(user_data.password)]
        created == create_user(hashed, Gravatar(user_data.email))
        new_user == created[Len(created)]
    IN  Result(201, "", UserModel(new_user), created, cache,
               {registration_email(new_user.email)})

\* A login that leaves the user id out of its tokens.
token_data_without_id(user) == [sub |-> user.username]

\* The claims login_user and refresh_token_check put in a token.
token_data(user) == [sub |-> user.username, id |-> user.id]

\* A login that never looks at the confirmed flag.
email_never_checked(user) == FALSE

\* login_user's test of the confirmed flag.
email_not_confirmed(user) == ~user.confirmed

\* A login that keeps the refresh token it finds stored.
\* A login that keeps the snapshot for as long as the resolver would.
login_session_snapshot_for_an_hour(c, user, refresh_token) ==
    redis_set(redis_set(c, UserKey(user.id), UserModel(user),
                        SNAPSHOT_TTL_SECONDS),
              RefreshKey(user.id), refresh_token, JWT_REFRESH_EXPIRATION_SECONDS)

login_session_keeping_refresh_token(c, user, refresh_token) ==
    LET c1 == redis_set(c, UserKey(user.id), UserModel(user),
                        JWT_REFRESH_EXPIRATION_SECONDS)
    IN  IF Present(c, RefreshKey(user.id)) THEN c1
        ELSE redis_set(c1, RefreshKey(user.id), refresh_token,
                       JWT_REFRESH_EXPIRATION_SECONDS)

\* login_user's two cache writes: the snapshot, then the refresh token.
login_session(c, user, refresh_token) ==
    redis_set(redis_set(c, UserKey(user.id), UserModel(user),
                        JWT_REFRESH_EXPIRATION_SECONDS),
              RefreshKey(user.id), refresh_token, JWT_REFRESH_EXPIRATION_SECONDS)

login_user(username, password) ==
    LET found == get_user_by_username(username) IN
    IF found = {} \/ ~verify_password(password, One(found).hashed_password)
    THEN Failure(401, USER_WRONG_CREDENTIALS, cache)
    ELSE IF email_not_confirmed(One(found))
    THEN Failure(401, USER_EMAIL_NOT_CONFIRMED, cache)
    ELSE
    LET user == One(found)
        access_token == create_access_token(token_data(user), <<>>)
        refresh_token == create_refresh_token(token_data(user), <<>>).token
    IN  Result(200, "",
               [access_token |-> access_token, refresh_token |-> refresh_token,
                token_type |-> "bearer"],
               users, login_session(cache, user, refresh_token),
               {access_token, refresh_token})

\* The same handler when Redis stops answering: redis_client.set raises at
\* the first or at the second write, nothing catches it, and the request
\* ends as 500 with whatever was written before.
CacheFailures == {"first_write", "second_write"}

login_user_cache_failing(username, password, failing) ==
    LET found == get_user_by_username(username) IN
    IF found = {} \/ ~verify_password(password, One(found).hashed_password)
    THEN Failure(401, USER_WRONG_CREDENTIALS, cache)
    ELSE IF email_not_confirmed(One(found))
    THEN Failure(401, USER_EMAIL_NOT_CONFIRMED, cache)
    ELSE
    LET user == One(found)
    IN  Failure(500, INTERNAL_SERVER_ERROR,
                IF failing = "first_write" THEN cache
                ELSE redis_set(cache, UserKey(user.id), UserModel(user),
                               JWT_REFRESH_EXPIRATION_SECONDS))

\* get_email_from_token, get_user_id_from_token, get_password_from_token:
\* 422 on a JWTError; a claim the payload lacks is a KeyError nobody catches.
get_from_token(token, claim) ==
    LET d == jwt_decode(token) IN
    IF ~d.ok
    THEN [ok |-> FALSE, status |-> 422, detail |-> ERROR_WRONG_TOKEN]
    ELSE IF claim \notin DOMAIN d.payload
    THEN [ok |-> FALSE, status |-> 500, detail |-> INTERNAL_SERVER_ERROR]
    ELSE [ok |-> TRUE, status |-> 200, detail |-> "", value |-> d.payload[claim]]

confirmed_email(token) ==
    LET email == get_from_token(token, "sub") IN
    IF ~email.ok
    THEN Failure(email.status, email.detail, cache)
    ELSE
    LET found == get_user_by_email(email.value) IN
    IF found = {}
    THEN Failure(400, VERIFICATION_ERROR, cache)
    ELSE IF One(found).confirmed
    THEN Result(200, USER_EMAIL_ALREADY_CONFIRMED, NoBody, users, cache, {})
    ELSE Result(200, USER_EMAIL_CONFIRMED, NoBody,
                repository_confirmed_email(users, email.value), cache, {})

\* user.confirmed is read before the user is tested for None.
request_email(email) ==
    LET found == get_user_by_email(email) IN
    IF found = {}
    THEN Failure(500, INTERNAL_SERVER_ERROR, cache)
    ELSE IF One(found).confirmed
    THEN Result(200, USER_EMAIL_ALREADY_CONFIRMED, NoBody, users, cache, {})
    ELSE Result(200, USER_EMAIL_CHECK_EMAIL, NoBody, users, cache,
                {registration_email(One(found).email)})

\* A refresh that takes any token whatever is stored.
token_revoked_never(stored_token, user_input) == FALSE

\* A refresh that only asks whether some token is stored for the user.
token_revoked_if_none_stored(stored_token, user_input) == stored_token = <<>>

\* refresh_token_check's comparison of the stored token with the presented one.
token_revoked(stored_token, user_input) == stored_token # <<user_input>>

refresh_token_check(bearer, user_input) ==
    LET who == get_current_user(bearer) IN
    IF who.outcome # "Authenticated"
    THEN Failure(who.status, who.detail, who.cache)
    ELSE
    LET user_id == get_from_token(user_input, "id") IN
    IF ~user_id.ok
    THEN Failure(user_id.status, user_id.detail, who.cache)
    ELSE
    LET stored_token == redis_get(who.cache, RefreshKey(user_id.value))
        found == get_user_by_id(user_id.value)
    IN  IF token_revoked(stored_token, user_input)
        THEN Failure(401, ERROR_TOKEN_REVOKED, who.cache)
        ELSE IF found = {}
        THEN Failure(404, USER_NOT_FOUND, who.cache)
        ELSE
        LET user == One(found)
            access_token == create_access_token(token_data(user), <<>>)
        IN  Result(200, "",
                   [access_token |-> access_token, refresh_token |-> user_input,
                    token_type |-> "bearer"],
                   users, who.cache, {access_token})

\* A logout that leaves the cached snapshot in place.
logout_session_keeping_snapshot(c, user_id) ==
    redis_delete(c, RefreshKey(user_id))

\* A logout that leaves the stored refresh token in place.
logout_session_keeping_refresh_token(c, user_id) ==
    redis_delete(c, UserKey(user_id))

\* logout's two cache deletes.
logout_session(c, user_id) ==
    redis_delete(redis_delete(c, UserKey(user_id)), RefreshKey(user_id))

logout(bearer) ==
    LET who == get_current_user(bearer) IN
    IF who.outcome # "Authenticated"
    THEN Failure(who.status, who.detail, who.cache)
    ELSE Result(200, USER_LOGOUT, NoBody, users,
                logout_session(who.cache, who.user.id), {})

reset_password_request(email, password) ==
    LET found == get_user_by_email(email) IN
    IF found = {}
    THEN Result(200, USER_EMAIL_CHECK_EMAIL, NoBody, users, cache, {})
    ELSE IF ~One(found).confirmed
    THEN Failure(400, USER_EMAIL_NOT_CONFIRMED, cache)
    ELSE
    LET hashed_password == get_password_hash(password)
        reset_token == create_access_token(
                           [sub |-> One(found).email, password |-> hashed_password],
                           <<>>)
    IN  Result(200, USER_EMAIL_CHECK_EMAIL, NoBody, users, cache, {reset_token})

\* A password reset that leaves the stored refresh token in place.
reset_session_keeping_refresh_token(c, user_id) ==
    redis_delete(c, UserKey(user_id))

\* confirm_reset_password's two cache deletes.
reset_session(c, user_id) ==
    redis_delete(redis_delete(c, UserKey(user_id)), RefreshKey(user_id))

confirm_reset_password(token) ==
    LET email == get_from_token(token, "sub")
        hashed_password == get_from_token(token, "password")
    IN
    IF ~email.ok
    THEN Failure(email.status, email.detail, cache)
    ELSE IF ~hashed_password.ok
    THEN Failure(hashed_password.status, hashed_password.detail, cache)
    ELSE IF email.value = "" \/ hashed_password.value = ""
    THEN Failure(400, ERROR_WRONG_TOKEN, cache)
    ELSE
    LET found == get_user_by_email(email.value) IN
    IF found = {}
    THEN Failure(404, ERROR_USER_NOT_FOUND, cache)
    ELSE Result(200, USER_PASSWORD_RESET, NoBody,
                reset_password(users, One(found).id, hashed_password.value),
                reset_session(cache, One(found).id), {})

\* The limiter of GET /users/me: a counter that starts a window with its
\* first hit and is dropped when the window has run out.
limiter_hit(l) ==
    IF now >= l.expires
    THEN [hits |-> 1, expires |-> now + RATE_WINDOW_SECONDS]
    ELSE [l EXCEPT !.hits = l.hits + 1]

\* GET /users/me: the resolver, then the limiter, then the user as resolved.
me(bearer) ==
    LET who == get_current_user(bearer) IN
    IF who.outcome # "Authenticated"
    THEN Failure(who.status, who.detail, who.cache)
    ELSE IF limiter_hit(limiter).hits > ME_RATE_LIMIT
    THEN Failure(429, LIMIT_EXCEEDED, who.cache)
    ELSE Result(200, "", UserModel(who.user), users, who.cache, {})

\* An admin check that lets everybody through.
is_current_user_admin_everybody(current_user) == TRUE

\* current_user.role == UserRole.ADMIN, on the user object as resolved: one
\* rebuilt from a cached snapshot carries no role.
is_current_user_admin(current_user) ==
    "role" \in DOMAIN current_user /\ current_user.role = ROLE_ADMIN

\* UploadFileService.upload_file: the URL of the uploaded version of the
\* image stored under the user's name.
upload_file(file, username) == "RestApp/" \o username \o "/" \o file

\* UserRepository.update_avatar_url
update_avatar_url(us, email, url) ==
    [i \in 1..Len(us) |->
        IF us[i].email = email THEN [us[i] EXCEPT !.avatar = url] ELSE us[i]]

\* PATCH /users/avatar
update_avatar_user(bearer, file) ==
    LET who == get_current_user(bearer) IN
    IF who.outcome # "Authenticated"
    THEN Failure(who.status, who.detail, who.cache)
    ELSE IF ~is_current_user_admin(who.user)
    THEN Failure(403, ERROR_UNSUFFICIENT_PERMISSIONS, who.cache)
    ELSE
    LET avatar_url == upload_file(file, who.user.username)
        updated == update_avatar_url(users, who.user.email, avatar_url)
    IN  Result(200, "", UserModel(One({u \in {updated[i] : i \in 1..Len(updated)} :
                                          u.email = who.user.email})),
               updated, who.cache, {})

(***************************************************************************)
(* Calendar.  A date is a year and the day of that year, which is what     *)
(* timetuple().tm_yday and extract("doy", ...) read off it.                *)
(***************************************************************************)
IsLeap(year) == year % 4 = 0 /\ (year % 100 # 0 \/ year % 400 = 0)

YearLength(year) == IF IsLeap(year) THEN 366 ELSE 365

\* date + timedelta(days=days)
RECURSIVE AddDays(_, _)
AddDays(date, days) ==
    IF days = 0 THEN date
    ELSE IF date.yday < YearLength(date.year)
    THEN AddDays([date EXCEPT !.yday = @ + 1], days - 1)
    ELSE AddDays([year |-> date.year + 1, yday |-> 1], days - 1)

tm_yday(date) == date.yday

(***************************************************************************)
(* Contacts: the contacts table and the handlers of src/api/contacts.py.   *)
(* A contact belongs to the user whose id it carries; filter_by(user=user) *)
(* selects by the id of the resolved user.                                 *)
(***************************************************************************)
ContactRows == {contacts[i] : i \in 1..Len(contacts)}

Owns(user, contact) == contact.user_id = user.id

\* A lookup by id that does not look at the owner.
get_contact_by_id_of_anybody(contact_id, user) ==
    {c \in ContactRows : c.id = contact_id}

get_contact_by_id(contact_id, user) ==
    {c \in ContactRows : c.id = contact_id /\ Owns(user, c)}

repository_create_contact(body, user) ==
    Append(contacts, [id |-> contact_serial + 1, user_id |-> user.id,
                      name |-> body.name, birstday |-> body.birstday])

repository_remove_contact(found) ==
    SelectSeq(contacts, LAMBDA c : c \notin found)

repository_update_contact(found, body) ==
    [i \in 1..Len(contacts) |->
        IF contacts[i] \in found
        THEN [contacts[i] EXCEPT !.name = body.name, !.birstday = body.birstday]
        ELSE contacts[i]]

\* What a contacts handler answers and leaves behind.
ContactResult(status, detail, body, rows, serial, c) ==
    [status |-> status, detail |-> detail, body |-> body, contacts |-> rows,
     contact_serial |-> serial, cache |-> c]

ContactFailure(status, detail, c) ==
    ContactResult(status, detail, NoBody, contacts, contact_serial, c)

read_contact(bearer, contact_id) ==
    LET who == get_current_user(bearer) IN
    IF who.outcome # "Authenticated"
    THEN ContactFailure(who.status, who.detail, who.cache)
    ELSE
    LET found == get_contact_by_id(contact_id, who.user) IN
    IF found = {}
    THEN ContactFailure(404, CONTACT_NOT_FOUND, who.cache)
    ELSE ContactResult(200, "", One(found), contacts, contact_serial, who.cache)

create_contact(bearer, body) ==
    LET who == get_current_user(bearer) IN
    IF who.outcome # "Authenticated"
    THEN ContactFailure(who.status, who.detail, who.cache)
    ELSE
    LET created == repository_create_contact(body, who.user)
    IN  ContactResult(201, "", created[Len(created)], created,
                      contact_serial + 1, who.cache)

update_contact(bearer, contact_id, body) ==
    LET who == get_current_user(bearer) IN
    IF who.outcome # "Authenticated"
    THEN ContactFailure(who.status, who.detail, who.cache)
    ELSE
    LET found == get_contact_by_id(contact_id, who.user) IN
    IF found = {}
    THEN ContactFailure(404, CONTACT_NOT_FOUND, who.cache)
    ELSE
    LET updated == repository_update_contact(found, body)
    IN  ContactResult(200, "",
                      One({c \in {updated[i] : i \in 1..Len(updated)} :
                              c.id = contact_id}),
                      updated, contact_serial, who.cache)

remove_contact(bearer, contact_id) ==
    LET who == get_current_user(bearer) IN
    IF who.outcome # "Authenticated"
    THEN ContactFailure(who.status, who.detail, who.cache)
    ELSE
    LET found == get_contact_by_id(contact_id, who.user) IN
    IF found = {}
    THEN ContactFailure(404, CONTACT_NOT_FOUND, who.cache)
    ELSE ContactResult(200, "", One(found), repository_remove_contact(found),
                       contact_serial, who.cache)

(***************************************************************************)
(* Nearest birthdays: BirthdayRepository.get_contacts and its cache of     *)
(* answers, one Redis list per (user id, skip, limit, daygap).             *)
(***************************************************************************)
BirthdaysKey(user_id, skip, limit, daygap) ==
    <<"birthdays", user_id, skip, limit, daygap>>

\* Every attribute through isoformat() or str().
serialize_contact(contact) ==
    [id |-> ToString(contact.id), user_id |-> ToString(contact.user_id),
     name |-> contact.name, birstday |-> [isoformat |-> contact.birstday]]

\* The day-of-year filter of the query, for either shape of the window.
in_window(doy, start_day, end_day) ==
    IF end_day < start_day
    THEN doy >= start_day \/ doy <= end_day
    ELSE start_day <= doy /\ doy <= end_day

\* .offset(skip).limit(limit) on the rows in table order.
offset_limit(rows, skip, limit) ==
    SubSeq(rows, skip + 1,
           IF Len(rows) < skip + limit THEN Len(rows) ELSE skip + limit)

birthday_get_contacts(c, skip, limit, daygap, user) ==
    LET start_day == tm_yday(today)
        end_day == tm_yday(AddDays(today, daygap))
        redis_key == BirthdaysKey(user.id, skip, limit, daygap)
        cached_contacts == redis_get(c, redis_key)
    IN  IF cached_contacts # <<>> /\ cached_contacts[1] # <<>>
        THEN [contacts |-> cached_contacts[1], cache |-> c, path |-> "cache"]
        ELSE
        LET matching == SelectSeq(contacts, LAMBDA row :
                            /\ Owns(user, row)
                            /\ in_window(tm_yday(row.birstday), start_day, end_day))
            page == offset_limit(matching, skip, limit)
            answer == [i \in 1..Len(page) |-> serialize_contact(page[i])]
        IN  [contacts |-> answer,
             cache |-> IF answer = <<>> THEN c
                       ELSE redis_set(c, redis_key, answer, BIRTHDAYS_TTL_SECONDS),
             path |-> "store"]

read_bistdays(bearer, skip, limit, daygap) ==
    LET who == get_current_user(bearer) IN
    IF who.outcome # "Authenticated"
    THEN ContactFailure(who.status, who.detail, who.cache)
    ELSE
    LET got == birthday_get_contacts(who.cache, skip, limit, daygap, who.user)
    IN  ContactResult(200, "", got.contacts, contacts, contact_serial, got.cache)

(***************************************************************************)
(* The state machine.  last is the step just taken: the handler, what was  *)
(* sent, the response, and what the handler found stored before it acted.  *)
(* served counts the requests answered so far.                             *)
(***************************************************************************)
\* What a client can send as a token: one it was handed, a tampered copy of
\* one, or a string that is no token.
Tampered ==
    {Forged(cache[k].val) : k \in {x \in DOMAIN cache : x[1] = "refresh_token"}}

Presentable == issued \cup Tampered \cup {Malformed}

TickSteps == {JWT_EXPIRATION_SECONDS + 1}

\* The date of the server clock when the service starts: 1 March 2025.
BootDay == [year |-> 2025, yday |-> 60]

\* A Register request that has not arrived yet.
Idle == [pc |-> "idle", user_data |-> NoBody, status |-> 0, detail |-> ""]

Init ==
    /\ users = <<>>
    /\ cache = <<>>
    /\ limiter = [hits |-> 0, expires |-> 0]
    /\ issued = {}
    /\ now = 0
    /\ served = 0
    /\ last = [op |-> "start", args |-> NoBody, pre |-> NoBody,
               status |-> 0, detail |-> "", body |-> NoBody]
    /\ flights = [f \in 1..MaxFlights |-> Idle]
    /\ contacts = <<>>
    /\ contact_serial = 0
    /\ today = BootDay

Answer(op, args, pre, r) ==
    /\ served < MaxRequests
    /\ served' = served + 1
    /\ users' = r.users
    /\ cache' = r.cache
    /\ issued' = issued \cup r.mail
    /\ now' = now
    /\ last' = [op |-> op, args |-> args, pre |-> pre,
                status |-> r.status, detail |-> r.detail, body |-> r.body]
    /\ UNCHANGED <<flights, contacts, contact_serial, today>>

Respond(op, args, pre, r) ==
    Answer(op, args, pre, r) /\ UNCHANGED limiter

Register ==
    \E user_data \in RegistrationForms :
        LET r == register_user(user_data)
        IN  /\ Len(r.users) <= MaxUsers
            /\ Respond("register", user_data, NoBody, r)

Login ==
    \E username \in Usernames, password \in Passwords :
        LET found == get_user_by_username(username)
            replaced == IF found = {} THEN <<>>
                        ELSE redis_get(cache, RefreshKey(One(found).id))
        IN  Respond("login", [username |-> username, password |-> password],
                    [refresh_token |-> replaced], login_user(username, password))

ConfirmEmail ==
    \E token \in Presentable :
        Respond("confirmed_email", [token |-> token], NoBody, confirmed_email(token))

RequestEmail ==
    \E email \in Emails :
        Respond("request_email", [email |-> email], NoBody, request_email(email))

Refresh ==
    \E bearer \in Presentable, user_input \in Presentable :
        Respond("refresh", [bearer |-> bearer, refresh_token |-> user_input],
                [who |-> get_current_user(bearer).outcome,
                 follows_logout_of |->
                     IF last.op = "logout" /\ last.status = 200
                     THEN last.args.bearer.payload.id ELSE 0],
                refresh_token_check(bearer, user_input))

Logout ==
    \E bearer \in Presentable :
        Respond("logout", [bearer |-> bearer],
                [again |-> /\ last.op = "logout"
                           /\ last.status = 200
                           /\ last.args.bearer = bearer],
                logout(bearer))

ResetPasswordRequest ==
    \E email \in Emails, password \in Passwords :
        Respond("reset_password", [email |-> email, password |-> password],
                NoBody, reset_password_request(email, password))

ConfirmResetPassword ==
    \E token \in Presentable :
        Respond("confirm_reset_password", [token |-> token], NoBody,
                confirm_reset_password(token))

Me ==
    \E bearer \in Presentable :
        /\ Answer("me", [bearer |-> bearer], NoBody, me(bearer))
        /\ limiter' = IF Authenticated(bearer) THEN limiter_hit(limiter)
                      ELSE limiter

Tick ==
    \E d \in TickSteps :
        /\ now + d <= MaxTime
        /\ now' = now + d
        /\ cache' = Expire(cache, now + d)
        /\ limiter' = IF now + d >= limiter.expires
                      THEN [hits |-> 0, expires |-> 0] ELSE limiter
        /\ last' = [op |-> "tick", args |-> NoBody, pre |-> NoBody,
                    status |-> 0, detail |-> "", body |-> NoBody]
        /\ UNCHANGED <<users, issued, served, flights, contacts, contact_serial,
                     today>>

Next ==
    \/ Register
    \/ Login
    \/ ConfirmEmail
    \/ RequestEmail
    \/ Refresh
    \/ Logout
    \/ ResetPasswordRequest
    \/ ConfirmResetPassword
    \/ Me
    \/ Tick

Spec == Init /\ [][Next]_vars

(***************************************************************************)
(* Concurrent Register requests.  register_user awaits the email lookup,   *)
(* the username lookup and the insert one after the other; between two     *)
(* awaits the event loop, or another worker, runs other requests.  The     *)
(* users table declares username and email unique, so the commit of a row  *)
(* that repeats one of them raises IntegrityError, which nobody catches.   *)
(***************************************************************************)
\* A commit that would leave two rows with one username or one email.
integrity_error_never(us, body) == FALSE

\* The unique constraints of the users table, tested at commit.
integrity_error(us, body) ==
    \E i \in 1..Len(us) :
        us[i].username = body.username \/ us[i].email = body.email

Land(f, pc, status, detail) ==
    flights' = [flights EXCEPT ![f] = [@ EXCEPT !.pc = pc, !.status = status,
                                                !.detail = detail]]

RegisterArrives ==
    \E f \in 1..MaxFlights, user_data \in RegistrationForms :
        /\ flights[f].pc = "idle"
        /\ flights' = [flights EXCEPT ![f] = [Idle EXCEPT
                           !.pc = "email_lookup", !.user_data = user_data]]
        /\ UNCHANGED <<users, cache, limiter, issued, now, served, last,
                       contacts, contact_serial, today>>

RegisterLooksUpEmail ==
    \E f \in 1..MaxFlights :
        /\ flights[f].pc = "email_lookup"
        /\ IF get_user_by_email(flights[f].user_data.email) # {}
           THEN Land(f, "done", 409, USER_EMAIL_ALREADY_EXISTS)
           ELSE Land(f, "username_lookup", 0, "")
        /\ UNCHANGED <<users, cache, limiter, issued, now, served, last,
                       contacts, contact_serial, today>>

RegisterLooksUpUsername ==
    \E f \in 1..MaxFlights :
        /\ flights[f].pc = "username_lookup"
        /\ IF get_user_by_username(flights[f].user_data.username) # {}
           THEN Land(f, "done", 409, USER_USERNAME_ALREADY_EXISTS)
           ELSE Land(f, "insert", 0, "")
        /\ UNCHANGED <<users, cache, limiter, issued, now, served, last,
                       contacts, contact_serial, today>>

RegisterInserts ==
    \E f \in 1..MaxFlights :
        LET user_data == flights[f].user_data
            hashed == [user_data EXCEPT
                           !.password = get_password_hash(user_data.password)]
        IN  /\ flights[f].pc = "insert"
            /\ IF integrity_error(users, hashed)
               THEN /\ Land(f, "done", 500, INTERNAL_SERVER_ERROR)
                    /\ UNCHANGED <<users, issued>>
               ELSE /\ Land(f, "done", 201, "")
                    /\ users' = create_user(hashed, Gravatar(user_data.email))
                    /\ issued' = issued \cup {registration_email(user_data.email)}
            /\ UNCHANGED <<cache, limiter, now, served, last, contacts,
                           contact_serial, today>>

NextRegister ==
    \/ RegisterArrives
    \/ RegisterLooksUpEmail
    \/ RegisterLooksUpUsername
    \/ RegisterInserts

SpecRegister == Init /\ [][NextRegister]_vars

(***************************************************************************)
(* Accounts with roles.  No handler sets a role, so an admin is a row the  *)
(* operator of the database wrote: the table starts with a confirmed plain *)
(* user and a confirmed admin, as the test fixtures seed theirs.           *)
(***************************************************************************)
Files == {"v1", "v2"}

SeededUser(id, username, email, password, role) ==
    [id |-> id, username |-> username, email |-> email,
     hashed_password |-> get_password_hash(password), confirmed |-> TRUE,
     avatar |-> Gravatar(email), role |-> role]

InitUsers ==
    /\ users = << SeededUser(1, "alice", "a@x", "pw1", ROLE_USER),
                  SeededUser(2, "bob", "b@x", "pw2", ROLE_ADMIN) >>
    /\ cache = <<>>
    /\ limiter = [hits |-> 0, expires |-> 0]
    /\ issued = {}
    /\ now = 0
    /\ served = 0
    /\ last = [op |-> "start", args |-> NoBody, pre |-> NoBody,
               status |-> 0, detail |-> "", body |-> NoBody]
    /\ flights = [f \in 1..MaxFlights |-> Idle]
    /\ contacts = <<>>
    /\ contact_serial = 0
    /\ today = BootDay

UpdateAvatar ==
    \E bearer \in Presentable, file \in Files :
        Respond("update_avatar", [bearer |-> bearer, file |-> file],
                [who |-> get_current_user(bearer)],
                update_avatar_user(bearer, file))

NextUsers ==
    \/ Login
    \/ Logout
    \/ Me
    \/ UpdateAvatar
    \/ Tick

SpecUsers == InitUsers /\ [][NextUsers]_vars

(***************************************************************************)
(* Every operation on accounts together: the table is seeded with the      *)
(* admin alone, and everybody else registers.                              *)
(***************************************************************************)
InitAdmin ==
    /\ users = << SeededUser(1, "bob", "b@x", "pw2", ROLE_ADMIN) >>
    /\ cache = <<>>
    /\ limiter = [hits |-> 0, expires |-> 0]
    /\ issued = {}
    /\ now = 0
    /\ served = 0
    /\ last = [op |-> "start", args |-> NoBody, pre |-> NoBody,
               status |-> 0, detail |-> "", body |-> NoBody]
    /\ flights = [f \in 1..MaxFlights |-> Idle]
    /\ contacts = <<>>
    /\ contact_serial = 0
    /\ today = BootDay

NextAccounts ==
    \/ Register
    \/ ConfirmEmail
    \/ RequestEmail
    \/ Login
    \/ Logout
    \/ Refresh
    \/ ResetPasswordRequest
    \/ ConfirmResetPassword
    \/ UpdateAvatar

SpecAccounts == InitAdmin /\ [][NextAccounts]_vars

(***************************************************************************)
(* The seeded accounts while Redis comes and goes: a login may find the    *)
(* cache failing at either of its two writes.                              *)
(***************************************************************************)
LoginCacheFailing ==
    \E username \in Usernames, password \in Passwords, failing \in CacheFailures :
        Respond("login_cache_failing",
                [username |-> username, password |-> password,
                 failing |-> failing],
                [cache |-> cache],
                login_user_cache_failing(username, password, failing))

NextOutage ==
    \/ Login
    \/ LoginCacheFailing
    \/ Refresh
    \/ Logout

SpecOutage == InitUsers /\ [][NextOutage]_vars

(***************************************************************************)
(* Concurrent logins of the seeded accounts.  A login suspends at the      *)
(* query for the user and at each of its two cache writes; the password    *)
(* check and the creation of the tokens run when the query returns.  A     *)
(* flight that has written its refresh token remembers how many had        *)
(* written theirs before it.                                               *)
(***************************************************************************)
Written == {g \in 1..MaxFlights : "order" \in DOMAIN flights[g]}

\* Requests take the free slots in order; which slot a request occupies
\* makes no difference to it.
NextSlot(f) ==
    /\ flights[f].pc = "idle"
    /\ \A g \in 1..(f - 1) : flights[g].pc # "idle"

LoginArrives ==
    \E f \in 1..MaxFlights, username \in Usernames, password \in Passwords :
        /\ NextSlot(f)
        /\ flights' = [flights EXCEPT ![f] = [Idle EXCEPT
                           !.pc = "user_lookup",
                           !.user_data = [username |-> username,
                                          password |-> password]]]
        /\ UNCHANGED <<users, cache, limiter, issued, now, served, last,
                       contacts, contact_serial, today>>

LoginLooksUpUser ==
    \E f \in 1..MaxFlights :
        LET form_data == flights[f].user_data
            found == get_user_by_username(form_data.username)
        IN  /\ flights[f].pc = "user_lookup"
            /\ IF found = {} \/ ~verify_password(form_data.password,
                                                 One(found).hashed_password)
               THEN Land(f, "done", 401, USER_WRONG_CREDENTIALS)
               ELSE IF email_not_confirmed(One(found))
               THEN Land(f, "done", 401, USER_EMAIL_NOT_CONFIRMED)
               ELSE flights' = [flights EXCEPT ![f] =
                        [pc |-> "set_snapshot", user_data |-> form_data,
                         status |-> 0, detail |-> "", user |-> One(found),
                         access_token |->
                             create_access_token(token_data(One(found)), <<>>),
                         refresh_token |->
                             create_refresh_token(token_data(One(found)),
                                                  <<>>).token]]
            /\ UNCHANGED <<users, cache, limiter, issued, now, served, last,
                           contacts, contact_serial, today>>

LoginSetsSnapshot ==
    \E f \in 1..MaxFlights :
        /\ flights[f].pc = "set_snapshot"
        /\ cache' = redis_set(cache, UserKey(flights[f].user.id),
                              UserModel(flights[f].user),
                              JWT_REFRESH_EXPIRATION_SECONDS)
        /\ flights' = [flights EXCEPT ![f].pc = "set_refresh_token"]
        /\ UNCHANGED <<users, limiter, issued, now, served, last, contacts,
                       contact_serial, today>>

LoginSetsRefreshToken ==
    \E f \in 1..MaxFlights :
        /\ flights[f].pc = "set_refresh_token"
        /\ cache' = redis_set(cache, RefreshKey(flights[f].user.id),
                              flights[f].refresh_token,
                              JWT_REFRESH_EXPIRATION_SECONDS)
        /\ flights' = [flights EXCEPT ![f] =
                           [flights[f] EXCEPT !.pc = "done", !.status = 200]
                           @@ [order |-> Cardinality(Written) + 1]]
        /\ issued' = issued \cup {flights[f].access_token,
                                  flights[f].refresh_token}
        /\ UNCHANGED <<users, limiter, now, served, last, contacts,
                       contact_serial, today>>

NextLogins ==
    \/ LoginArrives
    \/ LoginLooksUpUser
    \/ LoginSetsSnapshot
    \/ LoginSetsRefreshToken
    \/ Tick

SpecLogins == InitUsers /\ [][NextLogins]_vars

(***************************************************************************)
(* The token codec on its own: callers issue access and refresh tokens for *)
(* the seeded accounts, with no lifetime of their own or with one of 0 to  *)
(* MaxOverride seconds.                                                    *)
(***************************************************************************)
Overrides == {<<>>} \cup {<<t>> : t \in 0..MaxOverride}

IssueAccessToken ==
    \E i \in 1..Len(users), expires_delta \in Overrides :
        LET token == create_access_token(token_data(users[i]), expires_delta)
        IN  Respond("create_access_token",
                    [data |-> token_data(users[i]), expires_delta |-> expires_delta],
                    NoBody, Result(200, "", token, users, cache, {}))

IssueRefreshToken ==
    \E i \in 1..Len(users), expires_delta \in Overrides :
        LET made == create_refresh_token(token_data(users[i]), expires_delta)
        IN  Respond("create_refresh_token",
                    [data |-> token_data(users[i]), expires_delta |-> expires_delta],
                    NoBody,
                    IF made.raised THEN Failure(500, INTERNAL_SERVER_ERROR, cache)
                    ELSE Result(200, "", made.token, users, cache, {}))

NextTokens ==
    \/ IssueAccessToken
    \/ IssueRefreshToken
    \/ Tick

SpecTokens == InitUsers /\ [][NextTokens]_vars

(***************************************************************************)
(* Registration with a free choice of username: UserCreate.username is any *)
(* string, so somebody may register under a name that is the email address *)
(* of somebody else.                                                       *)
(***************************************************************************)
NamedForms ==
    { [username |-> "b@x", email |-> "a@x", password |-> "pw1"],
      [username |-> "bob", email |-> "b@x", password |-> "pw2"] }

RegisterNamed ==
    \E user_data \in NamedForms :
        LET r == register_user(user_data)
        IN  /\ Len(r.users) <= MaxUsers
            /\ Respond("register", user_data, NoBody, r)

LoginNamed ==
    \E form_data \in NamedForms :
        Respond("login", [username |-> form_data.username,
                          password |-> form_data.password],
                NoBody, login_user(form_data.username, form_data.password))

NextNamed ==
    \/ RegisterNamed
    \/ ConfirmEmail
    \/ LoginNamed
    \/ Logout

SpecNamed == Init /\ [][NextNamed]_vars

(***************************************************************************)
(* A password reset running beside logins.  Confirm-reset-password         *)
(* suspends at the query for the user, at each of its two cache deletes    *)
(* and at the update of the stored hash, in that order.                    *)
(***************************************************************************)
ResetArrives ==
    \E f \in 1..MaxFlights, token \in Presentable :
        /\ NextSlot(f)
        /\ flights' = [flights EXCEPT ![f] = [Idle EXCEPT
                           !.pc = "reset_lookup",
                           !.user_data = [token |-> token]]]
        /\ UNCHANGED <<users, cache, limiter, issued, now, served, last,
                       contacts, contact_serial, today>>

ResetLooksUpUser ==
    \E f \in 1..MaxFlights :
        LET token == flights[f].user_data.token
            email == get_from_token(token, "sub")
            hashed_password == get_from_token(token, "password")
        IN  /\ flights[f].pc = "reset_lookup"
            /\ IF ~email.ok
               THEN Land(f, "done", email.status, email.detail)
               ELSE IF ~hashed_password.ok
               THEN Land(f, "done", hashed_password.status,
                         hashed_password.detail)
               ELSE IF email.value = "" \/ hashed_password.value = ""
               THEN Land(f, "done", 400, ERROR_WRONG_TOKEN)
               ELSE IF get_user_by_email(email.value) = {}
               THEN Land(f, "done", 404, ERROR_USER_NOT_FOUND)
               ELSE flights' = [flights EXCEPT ![f] =
                        [pc |-> "reset_delete_snapshot",
                         user_data |-> flights[f].user_data,
                         status |-> 0, detail |-> "",
                         user_id |-> One(get_user_by_email(email.value)).id,
                         hashed_password |-> hashed_password.value]]
            /\ UNCHANGED <<users, cache, limiter, issued, now, served, last,
                           contacts, contact_serial, today>>

ResetDeletesSnapshot ==
    \E f \in 1..MaxFlights :
        /\ flights[f].pc = "reset_delete_snapshot"
        /\ cache' = redis_delete(cache, UserKey(flights[f].user_id))
        /\ flights' = [flights EXCEPT ![f].pc = "reset_delete_refresh_token"]
        /\ UNCHANGED <<users, limiter, issued, now, served, last, contacts,
                       contact_serial, today>>

ResetDeletesRefreshToken ==
    \E f \in 1..MaxFlights :
        /\ flights[f].pc = "reset_delete_refresh_token"
        /\ cache' = redis_delete(cache, RefreshKey(flights[f].user_id))
        /\ flights' = [flights EXCEPT ![f].pc = "reset_update"]
        /\ UNCHANGED <<users, limiter, issued, now, served, last, contacts,
                       contact_serial, today>>

ResetUpdatesPassword ==
    \E f \in 1..MaxFlights :
        /\ flights[f].pc = "reset_update"
        /\ users' = reset_password(users, flights[f].user_id,
                                   flights[f].hashed_password)
        /\ flights' = [flights EXCEPT ![f].pc = "reset_done",
                                      ![f].status = 200,
                                      ![f].detail = USER_PASSWORD_RESET]
        /\ UNCHANGED <<cache, limiter, issued, now, served, last, contacts,
                       contact_serial, today>>

\* alice has asked for her password to become bob's, and the mail with the
\* reset token is out.
InitReset ==
    /\ users = << SeededUser(1, "alice", "a@x", "pw1", ROLE_USER),
                  SeededUser(2, "bob", "b@x", "pw2", ROLE_ADMIN) >>
    /\ cache = <<>>
    /\ limiter = [hits |-> 0, expires |-> 0]
    /\ now = 0
    /\ issued = {create_access_token(
                     [sub |-> "a@x", password |-> get_password_hash("pw2")],
                     <<>>)}
    /\ served = 1
    /\ last = [op |-> "reset_password",
               args |-> [email |-> "a@x", password |-> "pw2"], pre |-> NoBody,
               status |-> 200, detail |-> USER_EMAIL_CHECK_EMAIL,
               body |-> NoBody]
    /\ flights = [f \in 1..MaxFlights |-> Idle]
    /\ contacts = <<>>
    /\ contact_serial = 0
    /\ today = BootDay

NextReset ==
    \/ ResetArrives
    \/ ResetLooksUpUser
    \/ ResetDeletesSnapshot
    \/ ResetDeletesRefreshToken
    \/ ResetUpdatesPassword
    \/ LoginArrives
    \/ LoginLooksUpUser
    \/ LoginSetsSnapshot
    \/ LoginSetsRefreshToken

SpecReset == InitReset /\ [][NextReset]_vars

(***************************************************************************)
(* The contacts service: the seeded accounts keep address books and ask    *)
(* for the nearest birthdays.  The server clock shows one of StartDays:    *)
(* 1 March 2025 or 31 December 2025.                                       *)
(***************************************************************************)
StartDays == {BootDay, [year |-> 2025, yday |-> 365]}

\* 1 March 2000 (a leap year) and 1 January 2001.
Birthdays == {[year |-> 2000, yday |-> 61], [year |-> 2001, yday |-> 1]}

ContactBodies == [name : {"carol"}, birstday : Birthdays]

ContactIds == 1..MaxContacts

Skips == {0}

Limits == {1, DEFAULT_LIMIT}

Daygaps == 0..MaxDaygap

InitContacts ==
    /\ users = << SeededUser(1, "alice", "a@x", "pw1", ROLE_USER),
                  SeededUser(2, "bob", "b@x", "pw2", ROLE_ADMIN) >>
    /\ cache = <<>>
    /\ limiter = [hits |-> 0, expires |-> 0]
    /\ issued = {}
    /\ now = 0
    /\ served = 0
    /\ last = [op |-> "start", args |-> NoBody, pre |-> NoBody,
               status |-> 0, detail |-> "", body |-> NoBody]
    /\ flights = [f \in 1..MaxFlights |-> Idle]
    /\ contacts = <<>>
    /\ contact_serial = 0
    /\ today \in StartDays

AnswerContacts(op, args, pre, r) ==
    /\ served < MaxContactRequests
    /\ served' = served + 1
    /\ cache' = r.cache
    /\ contacts' = r.contacts
    /\ contact_serial' = r.contact_serial
    /\ last' = [op |-> op, args |-> args, pre |-> pre,
                status |-> r.status, detail |-> r.detail, body |-> r.body]
    /\ UNCHANGED <<users, limiter, issued, now, flights, today>>

\* What the request finds: the resolver's verdict and the table.
Found(bearer) == [who |-> get_current_user(bearer), contacts |-> contacts]

LoginOwner ==
    \E username \in {"alice", "bob"} :
        LET password == IF username = "alice" THEN "pw1" ELSE "pw2"
            found == get_user_by_username(username)
        IN  /\ served < MaxContactRequests
            /\ Respond("login", [username |-> username, password |-> password],
                       [refresh_token |-> redis_get(cache, RefreshKey(One(found).id))],
                       login_user(username, password))

CreateContact ==
    \E bearer \in Presentable, body \in ContactBodies :
        /\ contact_serial < MaxContacts
        /\ AnswerContacts("create_contact", [bearer |-> bearer, body |-> body],
                          Found(bearer), create_contact(bearer, body))

ReadContact ==
    \E bearer \in Presentable, contact_id \in ContactIds :
        AnswerContacts("read_contact",
                       [bearer |-> bearer, contact_id |-> contact_id],
                       Found(bearer), read_contact(bearer, contact_id))

UpdateContact ==
    \E bearer \in Presentable, contact_id \in ContactIds, body \in ContactBodies :
        AnswerContacts("update_contact",
                       [bearer |-> bearer, contact_id |-> contact_id,
                        body |-> body],
                       Found(bearer), update_contact(bearer, contact_id, body))

RemoveContact ==
    \E bearer \in Presentable, contact_id \in ContactIds :
        AnswerContacts("remove_contact",
                       [bearer |-> bearer, contact_id |-> contact_id],
                       Found(bearer), remove_contact(bearer, contact_id))

ReadBirthdays ==
    \E bearer \in Presentable, skip \in Skips, limit \in Limits,
       daygap \in Daygaps :
        LET who == get_current_user(bearer)
            miss == who.outcome = "Authenticated" /\
                    ~Present(who.cache,
                             BirthdaysKey(who.user.id, skip, limit, daygap))
        IN  AnswerContacts("read_bistdays",
                           [bearer |-> bearer, skip |-> skip, limit |-> limit,
                            daygap |-> daygap],
                           [who |-> who, contacts |-> contacts, miss |-> miss],
                           read_bistdays(bearer, skip, limit, daygap))

NextContacts ==
    \/ LoginOwner
    \/ CreateContact
    \/ ReadContact
    \/ UpdateContact
    \/ RemoveContact
    \/ ReadBirthdays

SpecContacts == InitContacts /\ [][NextContacts]_vars

(***************************************************************************)
(* Concurrent nearest-birthdays queries of the seeded accounts, whose      *)
(* address books hold a contact each, as the test fixtures seed one.  A    *)
(* query suspends at the read of the cached list, at the query of the      *)
(* table, at every rpush and at the expire.                                *)
(***************************************************************************)
\* A cache with nothing in it.
NoCache == <<>>

\* RPUSH: appends to the list, creating it without a TTL, which within the
\* horizon of the clock means it does not expire.
redis_rpush(c, key, value) ==
    [k \in DOMAIN Expire(c, now) \cup {key} |->
        IF k # key THEN c[k]
        ELSE IF Present(c, key)
        THEN [c[key] EXCEPT !.val = Append(@, value)]
        ELSE [val |-> <<value>>, expires |-> MaxTime + 1, ex |-> 0]]

\* EXPIRE: sets the TTL of a key that exists.
redis_expire(c, key, ex) ==
    IF Present(c, key)
    THEN [c EXCEPT ![key] = [@ EXCEPT !.expires = now + ex, !.ex = ex]]
    ELSE c

SeededContacts ==
    << [id |-> 1, user_id |-> 1, name |-> "carol",
        birstday |-> [year |-> 2001, yday |-> 60]],
       [id |-> 2, user_id |-> 2, name |-> "dave",
        birstday |-> [year |-> 2001, yday |-> 60]] >>

InitBirthdays ==
    /\ users = << SeededUser(1, "alice", "a@x", "pw1", ROLE_USER),
                  SeededUser(2, "bob", "b@x", "pw2", ROLE_ADMIN) >>
    /\ cache = <<>>
    /\ limiter = [hits |-> 0, expires |-> 0]
    /\ issued = {}
    /\ now = 0
    /\ served = 0
    /\ last = [op |-> "start", args |-> NoBody, pre |-> NoBody,
               status |-> 0, detail |-> "", body |-> NoBody]
    /\ flights = [f \in 1..MaxFlights |-> Idle]
    /\ contacts = SeededContacts
    /\ contact_serial = Len(SeededContacts)
    /\ today = BootDay

BirthdaysArrives ==
    \E f \in 1..MaxFlights, user \in Rows, skip \in Skips,
       limit \in {DEFAULT_LIMIT}, daygap \in Daygaps :
        /\ NextSlot(f)
        /\ flights' = [flights EXCEPT ![f] = [Idle EXCEPT
                           !.pc = "lrange",
                           !.user_data = [user |-> UserModel(user),
                                          skip |-> skip, limit |-> limit,
                                          daygap |-> daygap]]]
        /\ UNCHANGED <<users, cache, limiter, issued, now, served, last,
                       contacts, contact_serial, today>>

FlightKey(f) ==
    BirthdaysKey(flights[f].user_data.user.id, flights[f].user_data.skip,
                 flights[f].user_data.limit, flights[f].user_data.daygap)

BirthdaysReadsCache ==
    \E f \in 1..MaxFlights :
        LET cached_contacts == redis_get(cache, FlightKey(f))
        IN  /\ flights[f].pc = "lrange"
            /\ flights' = [flights EXCEPT ![f] =
                   IF cached_contacts # <<>> /\ cached_contacts[1] # <<>>
                   THEN [pc |-> "done", user_data |-> flights[f].user_data,
                         status |-> 200, detail |-> "",
                         body |-> cached_contacts[1]]
                   ELSE [flights[f] EXCEPT !.pc = "query"]]
            /\ UNCHANGED <<users, cache, limiter, issued, now, served, last,
                           contacts, contact_serial, today>>

BirthdaysQueriesTable ==
    \E f \in 1..MaxFlights :
        LET q == flights[f].user_data
            found == birthday_get_contacts(NoCache, q.skip, q.limit, q.daygap,
                                           q.user).contacts
        IN  /\ flights[f].pc = "query"
            /\ flights' = [flights EXCEPT ![f] =
                   [pc |-> "rpush", user_data |-> q, status |-> 0,
                    detail |-> "", body |-> found, pushed |-> 0]]
            /\ UNCHANGED <<users, cache, limiter, issued, now, served, last,
                           contacts, contact_serial, today>>

BirthdaysPushes ==
    \E f \in 1..MaxFlights :
        /\ flights[f].pc = "rpush"
        /\ flights[f].pushed < Len(flights[f].body)
        /\ cache' = redis_rpush(cache, FlightKey(f),
                                flights[f].body[flights[f].pushed + 1])
        /\ flights' = [flights EXCEPT ![f].pushed = @ + 1]
        /\ UNCHANGED <<users, limiter, issued, now, served, last, contacts,
                       contact_serial, today>>

BirthdaysExpires ==
    \E f \in 1..MaxFlights :
        /\ flights[f].pc = "rpush"
        /\ flights[f].pushed = Len(flights[f].body)
        /\ cache' = redis_expire(cache, FlightKey(f), BIRTHDAYS_TTL_SECONDS)
        /\ flights' = [flights EXCEPT ![f].pc = "done", ![f].status = 200]
        /\ UNCHANGED <<users, limiter, issued, now, served, last, contacts,
                       contact_serial, today>>

NextBirthdays ==
    \/ BirthdaysArrives
    \/ BirthdaysReadsCache
    \/ BirthdaysQueriesTable
    \/ BirthdaysPushes
    \/ BirthdaysExpires

SpecBirthdays == InitBirthdays /\ [][NextBirthdays]_vars

(***************************************************************************)
(* Vocabulary of the claims.                                               *)
(***************************************************************************)

HasId(token) == "id" \in DOMAIN token.payload

\* The token is the very string stored under refresh_token:{id} for the id
\* it carries.
StoredFor(token) ==
    /\ HasId(token)
    /\ Present(cache, RefreshKey(token.payload.id))
    /\ cache[RefreshKey(token.payload.id)].val = token

Succeeded(r) == r.status = 200 /\ "access_token" \in DOMAIN r.body

Revoked(r) == r.status = 401 /\ r.detail = ERROR_TOKEN_REVOKED

UserNamed(username) == One(get_user_by_username(username))

(***************************************************************************)
(* C1.  A Refresh request, authenticated by a bearer token the identity    *)
(* resolver accepts, returns a new access token if and only if the         *)
(* presented refresh token is byte-identical to the one stored under       *)
(* refresh_token:{id} for the id it carries; every other request to the    *)
(* endpoint, one the resolver rejects included, returns none.              *)
(***************************************************************************)
C1_RefreshIffStored ==
    \A bearer \in Presentable, user_input \in Presentable :
        LET r == refresh_token_check(bearer, user_input) IN
        IF Authenticated(bearer)
        THEN Succeeded(r) <=> StoredFor(user_input)
        ELSE ~Succeeded(r)

C1_Witness ==
    /\ last.op = "refresh"
    /\ last.status = 200
    /\ StoredFor(last.args.refresh_token)
    /\ \E t \in issued : HasId(t) /\ ~StoredFor(t)

(***************************************************************************)
(* C2 as stated.  After a second successful Login of a user, a Refresh     *)
(* presenting the refresh token the first Login returned (the one the      *)
(* second Login found stored) is rejected with TokenRevoked.               *)
(***************************************************************************)
C2_FirstTokenRevoked ==
    (last.op = "login" /\ last.status = 200 /\ last.pre.refresh_token # <<>>)
    => \A bearer \in Presentable :
           Authenticated(bearer)
           => Revoked(refresh_token_check(bearer, last.pre.refresh_token[1]))

(***************************************************************************)
(* C2 as amended.  For every user id at most one presentable token is      *)
(* accepted by Refresh; after a second successful Login of a user, a       *)
(* Refresh presenting the first Login's refresh token is rejected with     *)
(* TokenRevoked unless the two Logins fell in the same clock second and    *)
(* so returned the byte-identical token.                                   *)
(***************************************************************************)
Accepted(user_id) ==
    {t \in Presentable :
        /\ HasId(t)
        /\ t.payload.id = user_id
        /\ \E bearer \in Presentable :
               Succeeded(refresh_token_check(bearer, t))}

C2_FirstTokenRevokedUnlessSame ==
    /\ \A user_id \in 1..Len(users) : Cardinality(Accepted(user_id)) <= 1
    /\ (last.op = "login" /\ last.status = 200 /\ last.pre.refresh_token # <<>>)
       => /\ StoredFor(last.body.refresh_token)
          /\ last.pre.refresh_token[1] # last.body.refresh_token
             => \A bearer \in Presentable :
                    Authenticated(bearer)
                    => Revoked(refresh_token_check(bearer,
                                                   last.pre.refresh_token[1]))

C2_Witness ==
    /\ last.op = "login"
    /\ last.status = 200
    /\ last.pre.refresh_token # <<>>
    /\ last.pre.refresh_token[1] # last.body.refresh_token
    /\ \E bearer \in Presentable : Authenticated(bearer)

(***************************************************************************)
(* C3 as stated.  Login with an account whose confirmed flag is false      *)
(* fails with EmailNotConfirmed whatever the password.                     *)
(***************************************************************************)
C3_UnconfirmedAlwaysNotConfirmed ==
    (/\ last.op = "login"
     /\ get_user_by_username(last.args.username) # {}
     /\ ~UserNamed(last.args.username).confirmed)
    => last.status = 401 /\ last.detail = USER_EMAIL_NOT_CONFIRMED

(***************************************************************************)
(* C3 as amended.  Login with an account whose confirmed flag is false     *)
(* always fails with 401 and changes nothing: with EmailNotConfirmed when  *)
(* the password matches the stored hash, with WrongCredentials when it     *)
(* does not.                                                               *)
(***************************************************************************)
C3_UnconfirmedNeverLogsIn ==
    \A username \in Usernames, password \in Passwords :
        (get_user_by_username(username) # {} /\ ~UserNamed(username).confirmed)
        => LET r == login_user(username, password)
               matches == verify_password(password,
                                          UserNamed(username).hashed_password)
           IN  /\ r.status = 401
               /\ r.detail = IF matches THEN USER_EMAIL_NOT_CONFIRMED
                                        ELSE USER_WRONG_CREDENTIALS
               /\ r.cache = cache /\ r.users = users /\ r.mail = {}

C3_Witness ==
    /\ last.op = "login"
    /\ last.detail = USER_EMAIL_NOT_CONFIRMED
    /\ ~UserNamed(last.args.username).confirmed

FailsDecoding(token) ==
    \/ ~jwt_decode(token).ok
    \/ "sub" \notin DOMAIN token.payload
    \/ "id" \notin DOMAIN token.payload

C5_UndecodableIsCredentialsInvalid ==
    (last.op \in {"me", "logout", "refresh"} /\ FailsDecoding(last.args.bearer))
    => last.status = 401 /\ last.detail = CREDENTIALS_INVALID

IssuedTo(user_id) ==
    {t \in issued : HasId(t) /\ t.payload.id = user_id /\ jwt_decode(t).ok}

NoneStored(user_id) == ~Present(cache, RefreshKey(user_id))

C7_RevokedUntilLogin ==
    /\ []((last.op = "logout" /\ last.status = 200)
          => NoneStored(last.args.bearer.payload.id))
    /\ [](\A user_id \in 1..Len(users) :
              NoneStored(user_id)
              => \A t \in IssuedTo(user_id), bearer \in Presentable :
                     Authenticated(bearer)
                     => Revoked(refresh_token_check(bearer, t)))
    /\ [][\A user_id \in 1..MaxUsers + 1 :
              (NoneStored(user_id) /\ ~NoneStored(user_id)')
              => /\ last'.op = "login"
                 /\ last'.status = 200
                 /\ UserNamed(last'.args.username).id = user_id]_vars

C7_Witness ==
    /\ last.op = "refresh"
    /\ last.pre.who = "Authenticated"
    /\ last.pre.follows_logout_of # 0
    /\ last.args.refresh_token \in IssuedTo(last.pre.follows_logout_of)
    /\ last.args.refresh_token.payload.exp > MaxTime + JWT_EXPIRATION_SECONDS
    /\ last.status = 401
    /\ last.detail = ERROR_TOKEN_REVOKED

C9_WrongTokenIsBadRequest ==
    (/\ last.op = "confirm_reset_password"
     /\ jwt_decode(last.args.token).ok
     /\ \/ "sub" \notin DOMAIN last.args.token.payload
        \/ "password" \notin DOMAIN last.args.token.payload)
    => last.status = 400 /\ last.detail = ERROR_WRONG_TOKEN

(***************************************************************************)
(* C10.  Register is rejected with 409 and the email message when a user   *)
(* with the submitted email exists, whatever the username; with 409 and    *)
(* the username message when the email is free and a user with the         *)
(* submitted username exists; a rejected Register leaves the user store    *)
(* and the cache as they were and sends no email.  With both free it is    *)
(* not rejected.                                                           *)
(***************************************************************************)
C10_RegisterConflict ==
    \A username \in Usernames, email \in Emails, password \in Passwords :
        LET r == register_user([username |-> username, email |-> email,
                                password |-> password])
            email_exists == \E i \in 1..Len(users) : users[i].email = email
            username_exists ==
                \E i \in 1..Len(users) : users[i].username = username
            nothing_changed ==
                r.users = users /\ r.cache = cache /\ r.mail = {}
        IN  /\ email_exists
               => /\ r.status = 409
                  /\ r.detail = USER_EMAIL_ALREADY_EXISTS
                  /\ nothing_changed
            /\ (~email_exists /\ username_exists)
               => /\ r.status = 409
                  /\ r.detail = USER_USERNAME_ALREADY_EXISTS
                  /\ nothing_changed
            /\ (~email_exists /\ ~username_exists) => r.status = 201

C10_Witness ==
    /\ last.op = "register"
    /\ last.status = 409
    /\ last.detail = USER_EMAIL_ALREADY_EXISTS
    /\ \E i \in 1..Len(users) :
           users[i].username = last.args.username /\ users[i].email # last.args.email
    /\ \E username \in Usernames :
           register_user([username |-> username, email |-> last.args.email,
                          password |-> last.args.password]).detail
               = USER_EMAIL_ALREADY_EXISTS

(***************************************************************************)
(* C11.  Under every interleaving of the lookups and inserts of concurrent *)
(* Register requests, no two rows of the users table share a username and  *)
(* no two share an email.                                                  *)
(***************************************************************************)
C11_UniqueUsernameAndEmail ==
    \A i, j \in 1..Len(users) :
        i # j => /\ users[i].username # users[j].username
                 /\ users[i].email # users[j].email

C11_Witness ==
    \E f, g \in 1..MaxFlights :
        /\ f # g
        /\ flights[f].pc = "done" /\ flights[f].status = 201
        /\ flights[g].pc = "done" /\ flights[g].status = 500
        /\ Len(users) = 2

(***************************************************************************)
(* C12.  Confirm-email with an unexpired confirmation token of a           *)
(* registered user answers 200 and leaves the cache alone: when the user   *)
(* is already confirmed, with the "already confirmed" message and the      *)
(* users table unchanged; when the flag is false, with the "confirmed"     *)
(* message and the table changed in that user's flag only, which is true.  *)
(***************************************************************************)
IsConfirmationToken(token) ==
    /\ jwt_decode(token).ok
    /\ DOMAIN token.payload = {"sub", "iat", "exp"}

C12_ConfirmEmail ==
    \A token \in Presentable :
        (/\ IsConfirmationToken(token)
         /\ get_user_by_email(token.payload.sub) # {})
        => LET user == One(get_user_by_email(token.payload.sub))
               r == confirmed_email(token)
           IN  /\ r.status = 200
               /\ r.cache = cache
               /\ IF user.confirmed
                  THEN r.detail = USER_EMAIL_ALREADY_CONFIRMED /\ r.users = users
                  ELSE /\ r.detail = USER_EMAIL_CONFIRMED
                       /\ Len(r.users) = Len(users)
                       /\ \A i \in 1..Len(users) :
                              r.users[i] =
                                  IF users[i].id = user.id
                                  THEN [users[i] EXCEPT !.confirmed = TRUE]
                                  ELSE users[i]

C12_Witness ==
    /\ last.op = "confirmed_email"
    /\ IsConfirmationToken(last.args.token)
    /\ last.status = 200
    /\ last.detail = USER_EMAIL_ALREADY_CONFIRMED
    /\ \E i \in 1..Len(users) : ~users[i].confirmed

(***************************************************************************)
(* C13 as stated.  Request-email-confirmation answers 200 for every email, *)
(* registered or not: "already confirmed" for a confirmed user, "check     *)
(* your email" otherwise.                                                  *)
(***************************************************************************)
C13_RequestEmailNeverFails ==
    last.op = "request_email"
    => /\ last.status = 200
       /\ last.detail = IF \E i \in 1..Len(users) :
                               /\ users[i].email = last.args.email
                               /\ users[i].confirmed
                        THEN USER_EMAIL_ALREADY_CONFIRMED
                        ELSE USER_EMAIL_CHECK_EMAIL

(***************************************************************************)
(* C14.  An avatar update by a resolved user whose role is not admin is    *)
(* answered 403 "Insufficient permissions"; it leaves the users table as   *)
(* it was, that user's avatar included, and the cache as the resolver left *)
(* it.  The answer follows the role of the user object the resolver        *)
(* returned, whatever the users table holds for that user.                 *)
(***************************************************************************)
NotAdmin(user) == "role" \notin DOMAIN user \/ user.role # ROLE_ADMIN

C14_NonAdminForbidden ==
    \A bearer \in Presentable, file \in Files :
        LET who == get_current_user(bearer)
            r == update_avatar_user(bearer, file)
        IN  (who.outcome = "Authenticated" /\ NotAdmin(who.user))
            => /\ r.status = 403
               /\ r.detail = ERROR_UNSUFFICIENT_PERMISSIONS
               /\ r.users = users
               /\ r.cache = who.cache
               /\ r.mail = {}

C14_Witness ==
    /\ last.op = "update_avatar"
    /\ last.pre.who.outcome = "Authenticated"
    /\ last.pre.who.path = "store"
    /\ last.pre.who.user.role = ROLE_USER
    /\ last.status = 403
    /\ \E i \in 1..Len(users) :
           /\ users[i].id = last.pre.who.user.id
           /\ users[i].avatar = Gravatar(users[i].email)

(***************************************************************************)
(* C15.  With no cached answer, the nearest-birthdays query of a user for  *)
(* daygap days returns every contact of that user whose birthday (its      *)
(* month and day) falls on today or one of the next daygap days, and no    *)
(* other contact.  The query asks for the first page of the default size.  *)
(* The code compares the day of the year of the date of birth with the     *)
(* days of the current year, and a month and day is not the same day of    *)
(* the year in a leap year and in a common year, so this does not hold.    *)
(***************************************************************************)
\* The month and day of a date, as its day in a leap year.
MonthDay(date) ==
    IF IsLeap(date.year) \/ date.yday < 60 THEN date.yday ELSE date.yday + 1

BirthdayWithin(birstday, from, daygap) ==
    \E k \in 0..daygap : MonthDay(AddDays(from, k)) = MonthDay(birstday)

Ids(answer) == {answer[i].id : i \in 1..Len(answer)}

FirstPageMiss ==
    /\ last.op = "read_bistdays"
    /\ last.status = 200
    /\ last.pre.miss
    /\ last.args.skip = 0
    /\ last.args.limit = DEFAULT_LIMIT

OwnedBy(user_id, contact_id) ==
    {c \in ContactRows : c.id = contact_id /\ c.user_id = user_id}

Others(rows, user_id, contact_id) ==
    SelectSeq(rows, LAMBDA c : ~(c.id = contact_id /\ c.user_id = user_id))

C16_OnlyOwnContacts ==
    \A bearer \in Presentable, contact_id \in ContactIds, body \in ContactBodies :
        LET who == get_current_user(bearer) IN
        who.outcome = "Authenticated" =>
        \A r \in {read_contact(bearer, contact_id),
                   update_contact(bearer, contact_id, body),
                   remove_contact(bearer, contact_id)} :
            /\ r.cache = who.cache
            /\ Others(r.contacts, who.user.id, contact_id)
                 = Others(contacts, who.user.id, contact_id)
            /\ IF OwnedBy(who.user.id, contact_id) = {}
               THEN /\ r.status = 404
                    /\ r.detail = CONTACT_NOT_FOUND
                    /\ r.body = NoBody
                    /\ r.contacts = contacts
               ELSE /\ r.status = 200
                    /\ r.body.id = contact_id
                    /\ r.body.user_id = who.user.id

\* Somebody was refused a contact that exists and belongs to another user.
C16_Witness ==
    /\ last.op \in {"read_contact", "update_contact", "remove_contact"}
    /\ last.status = 404
    /\ last.detail = CONTACT_NOT_FOUND
    /\ \E i \in 1..Len(contacts) :
          /\ contacts[i].id = last.args.contact_id
          /\ contacts[i].user_id # last.pre.who.user.id
    /\ contacts = last.pre.contacts

(***************************************************************************)
(* C17.  When the cache holds a snapshot under user:{id} for the id of a   *)
(* valid access token, the resolver answers Authenticated with the user    *)
(* rebuilt from that snapshot, whatever the users table says, and leaves   *)
(* the cache exactly as it was.                                            *)
(***************************************************************************)
ValidWithId(token) ==
    /\ jwt_decode(token).ok
    /\ "sub" \in DOMAIN token.payload
    /\ "id" \in DOMAIN token.payload

C17_CacheHit ==
    \A token \in Presentable :
        (ValidWithId(token) /\ Present(cache, UserKey(token.payload.id)))
        => LET who == get_current_user(token)
           IN  /\ who.outcome = "Authenticated"
               /\ who.path = "cache"
               /\ who.user = from_dict(cache[UserKey(token.payload.id)].val)
               /\ who.cache = cache

\* A request was resolved from a snapshot that the table has since left
\* behind: the avatar in the table is newer than the one resolved.
C17_Witness ==
    /\ last.op = "update_avatar"
    /\ last.pre.who.outcome = "Authenticated"
    /\ last.pre.who.path = "cache"
    /\ last.pre.who.cache = cache
    /\ \E i \in 1..Len(users) :
          /\ users[i].id = last.pre.who.user.id
          /\ users[i].avatar # last.pre.who.user.avatar

Entry(value, ex) == [val |-> value, expires |-> now + ex, ex |-> ex]

ConfirmedKept ==
    /\ Len(users') >= Len(users)
    /\ \A i \in 1..Len(users) :
          /\ users'[i].id = users[i].id
          /\ users[i].confirmed => users'[i].confirmed
    /\ \A i \in (Len(users) + 1)..Len(users') : ~users'[i].confirmed

C20_ConfirmedMonotonic == [][ConfirmedKept]_vars

\* Somebody who registered and confirmed has since logged in.
C20_Witness ==
    /\ last.op = "login"
    /\ last.status = 200
    /\ UserNamed(last.args.username).id > 1
    /\ UserNamed(last.args.username).confirmed

(***************************************************************************)
(* C21 as stated.  A login with the correct password of a confirmed user   *)
(* during which a cache write fails still answers 200 with the token pair, *)
(* and leaves no session in the cache.  The handler has nothing that       *)
(* catches the failure of redis_client.set, so the login answers 500.      *)
(***************************************************************************)
CorrectLogin(username, password) ==
    \E i \in 1..Len(users) :
        /\ users[i].username = username
        /\ verify_password(password, users[i].hashed_password)
        /\ users[i].confirmed

C21_LoginSurvivesCacheFailure ==
    (last.op = "login_cache_failing"
     /\ CorrectLogin(last.args.username, last.args.password))
    => /\ last.status = 200
       /\ "access_token" \in DOMAIN last.body
       /\ "refresh_token" \in DOMAIN last.body
       /\ cache = last.pre.cache

(***************************************************************************)
(* C22.  Once every login of a user that was under way has completed and   *)
(* two of them succeeded, one refresh token is stored for that user, the   *)
(* one written last, and a Refresh request (one whose bearer the resolver  *)
(* accepts) with the refresh token of the other login is rejected - unless *)
(* the two logins were handed the identical token, which happens when they *)
(* created it within the same second.                                      *)
(***************************************************************************)
LoggedIn(f, user_id) ==
    /\ flights[f].pc = "done"
    /\ flights[f].status = 200
    /\ flights[f].user.id = user_id

UnderWay(user_id) ==
    \E f \in 1..MaxFlights :
        \/ flights[f].pc = "user_lookup"
        \/ /\ flights[f].pc \in {"set_snapshot", "set_refresh_token"}
           /\ flights[f].user.id = user_id

\* f and g logged the user in, g wrote last of all, and the entry is there.
BothCompleted(f, g, user_id) ==
    /\ f # g
    /\ LoggedIn(f, user_id)
    /\ LoggedIn(g, user_id)
    /\ ~UnderWay(user_id)
    /\ \A h \in 1..MaxFlights :
          LoggedIn(h, user_id) => flights[h].order <= flights[g].order
    /\ Present(cache, RefreshKey(user_id))

RefreshRejected(user_input) ==
    \A bearer \in Presentable :
        Authenticated(bearer)
        => refresh_token_check(bearer, user_input).status # 200

C22_LastWriterWinsUnlessSame ==
    \A f, g \in 1..MaxFlights, user_id \in 1..MaxUsers :
        BothCompleted(f, g, user_id)
        => /\ redis_get(cache, RefreshKey(user_id)) = <<flights[g].refresh_token>>
           /\ flights[f].refresh_token # flights[g].refresh_token
              => RefreshRejected(flights[f].refresh_token)

\* C22 as stated: the other login's token is rejected whatever it is.
C22_LastWriterWins ==
    \A f, g \in 1..MaxFlights, user_id \in 1..MaxUsers :
        BothCompleted(f, g, user_id)
        => /\ redis_get(cache, RefreshKey(user_id)) = <<flights[g].refresh_token>>
           /\ RefreshRejected(flights[f].refresh_token)

\* Two logins of one user interleaved their writes and got different tokens;
\* the one that wrote its snapshot first wrote its refresh token last.
C22_Witness ==
    \E f, g \in 1..MaxFlights, user_id \in 1..MaxUsers :
        /\ BothCompleted(f, g, user_id)
        /\ flights[f].refresh_token # flights[g].refresh_token
        /\ flights[g].refresh_token.payload.exp < flights[f].refresh_token.payload.exp
        /\ \E bearer \in Presentable : Authenticated(bearer)

(***************************************************************************)
(* C23 as stated.  The refresh token returned by a successful login        *)
(* expires JWT_REFRESH_EXPIRATION_SECONDS seconds after it was issued,     *)
(* which is when the cache entry refresh_token:{id} holding it expires.    *)
(* create_refresh_token passes the setting to timedelta as days, so the    *)
(* token outlives its cache entry by a factor of 86400.                    *)
(***************************************************************************)
C23_RefreshLifetimeIsTtl ==
    (last.op = "login" /\ last.status = 200)
    => /\ last.body.refresh_token.payload.exp
            = now + JWT_REFRESH_EXPIRATION_SECONDS
       /\ last.body.refresh_token.payload.exp
            = cache[RefreshKey(last.body.refresh_token.payload.id)].expires

(***************************************************************************)
(* C24 as stated.  A token issued with a lifetime override of t seconds,   *)
(* t = 0 included, expires t seconds after it was issued, for access and   *)
(* refresh tokens alike; without an override it expires after the default  *)
(* lifetime of its kind.  Both functions test the override for truth, so   *)
(* 0 counts as none, and create_refresh_token adds the number to a         *)
(* datetime, which raises TypeError.                                       *)
(***************************************************************************)
DefaultExpiry(op) ==
    IF op = "create_access_token"
    THEN create_access_token(last.args.data, <<>>).payload.exp
    ELSE create_refresh_token(last.args.data, <<>>).token.payload.exp

C24_OverrideWins ==
    last.op \in {"create_access_token", "create_refresh_token"}
    => /\ last.status = 200
       /\ last.body.payload.exp =
             IF last.args.expires_delta = <<>> THEN DefaultExpiry(last.op)
             ELSE now + last.args.expires_delta[1]

(***************************************************************************)
(* C25 as stated.  The access token returned by a successful Refresh names *)
(* the user (subject and id) of the bearer token that authenticated the    *)
(* request.  The handler resolves the bearer but builds the new token from *)
(* the id inside the presented refresh token, so it names whoever that     *)
(* refresh token belongs to.                                               *)
(***************************************************************************)
C25_RefreshKeepsIdentity ==
    (last.op = "refresh" /\ last.status = 200)
    => /\ last.body.access_token.payload.sub = last.args.bearer.payload.sub
       /\ last.body.access_token.payload.id = last.args.bearer.payload.id

(***************************************************************************)
(* C26 as stated.  A Confirm-email request that turns a confirmed flag to  *)
(* true was given an email-confirmation token (subject, issue time and     *)
(* expiry, nothing else) issued for the email of that user.  The handler   *)
(* takes the subject of any token that decodes, and an access token whose  *)
(* username is somebody's email address confirms that address.             *)
(***************************************************************************)
C26_OnlyConfirmationTokensConfirm ==
    (last.op = "confirmed_email" /\ last.detail = USER_EMAIL_CONFIRMED)
    => /\ DOMAIN last.args.token.payload = {"sub", "iat", "exp"}
       /\ last.args.token \in issued
       /\ \E i \in 1..Len(users) :
             users[i].email = last.args.token.payload.sub /\ users[i].confirmed

(***************************************************************************)
(* C27 as stated.  Once a Confirm-reset-password of a user has completed,  *)
(* no refresh token that a login issued under the old password is stored   *)
(* as that user's refresh token, however the login and the reset were      *)
(* interleaved.  A login that verified the old password before the reset   *)
(* wrote the new hash writes its refresh token after the reset deleted the *)
(* old one, and nothing removes it.                                        *)
(***************************************************************************)
ResetCompleted(f) == flights[f].pc = "reset_done"

\* Flight l is a login that verified a password other than the one the
\* reset of flight f installed, and has its refresh token.
IssuedUnderOldPassword(l, f) ==
    /\ "refresh_token" \in DOMAIN flights[l]
    /\ flights[l].user.id = flights[f].user_id
    /\ flights[l].user.hashed_password # flights[f].hashed_password

C27_ResetRevokesOldLogins ==
    \A f, l \in 1..MaxFlights :
        (ResetCompleted(f) /\ IssuedUnderOldPassword(l, f))
        => redis_get(cache, RefreshKey(flights[f].user_id))
             # <<flights[l].refresh_token>>

(***************************************************************************)
(* C28.  Whenever a snapshot is present in the cache under user:{id}, a    *)
(* user with that id is in the table and the snapshot carries that user's  *)
(* id, username and email; its avatar is the current one or one the user   *)
(* had before - the one from registration or an earlier upload - because   *)
(* an avatar update leaves the snapshot as it is.                          *)
(***************************************************************************)
Snapshots == {k \in DOMAIN cache : k[1] = "user" /\ Present(cache, k)}

RowWithId(user_id) == {u \in Rows : u.id = user_id}

AvatarsOf(user) ==
    {Gravatar(user.email)} \cup {upload_file(file, user.username) : file \in Files}

C28_SnapshotOfSameUser ==
    \A k \in Snapshots :
        /\ RowWithId(k[2]) # {}
        /\ LET user == One(RowWithId(k[2]))
               snapshot == cache[k].val
           IN  /\ snapshot.id = user.id
               /\ snapshot.username = user.username
               /\ snapshot.email = user.email
               /\ snapshot.avatar \in AvatarsOf(user)

\* C28 as stated: the snapshot is the projection of the current row.
C28_SnapshotIsProjection ==
    \A k \in Snapshots :
        /\ RowWithId(k[2]) # {}
        /\ cache[k].val = UserModel(One(RowWithId(k[2])))

\* An avatar update went through and the snapshot still has the old avatar.
C28_Witness ==
    /\ last.op = "update_avatar"
    /\ last.status = 200
    /\ \E k \in Snapshots :
          /\ k[2] = last.body.id
          /\ cache[k].val.avatar # last.body.avatar
          /\ cache[k].val.avatar \in AvatarsOf(One(RowWithId(k[2])))

(***************************************************************************)
(* C29 as stated.  A nearest-birthdays query answers what the contacts     *)
(* table holds now, whether it is answered from the cache or from the      *)
(* table: for every accepted bearer and every (skip, limit, daygap) the    *)
(* answer is the one a query with an empty cache would give.  Creating,    *)
(* updating or deleting a contact leaves the cached lists alone, so an     *)
(* answer cached before the change is served until it expires.             *)
(***************************************************************************)
C29_CacheAnswersAsStore ==
    \A bearer \in Presentable, skip \in Skips, limit \in Limits,
       daygap \in Daygaps :
        LET who == get_current_user(bearer) IN
        who.outcome = "Authenticated"
        => read_bistdays(bearer, skip, limit, daygap).body
             = birthday_get_contacts(NoCache, skip, limit, daygap,
                                     who.user).contacts

(***************************************************************************)
(* C30 as stated.  When no nearest-birthdays query is under way, every     *)
(* list cached under a birthdays key holds each contact once, so that an   *)
(* answer from the cache has no duplicates, however the queries that       *)
(* missed the cache were interleaved.  Two queries that both find the key  *)
(* missing both push their rows onto the same list.                        *)
(***************************************************************************)
QueryUnderWay ==
    \E f \in 1..MaxFlights : flights[f].pc \in {"lrange", "query", "rpush"}

NoDuplicates(list) ==
    \A i, j \in 1..Len(list) : i # j => list[i] # list[j]

C30_CachedListHasNoDuplicates ==
    ~QueryUnderWay
    => /\ \A k \in DOMAIN cache :
             (k[1] = "birthdays" /\ Present(cache, k)) => NoDuplicates(cache[k].val)
       /\ \A f \in 1..MaxFlights :
             flights[f].pc = "done" => NoDuplicates(flights[f].body)

====
